---- MODULE Spec2Model ----
(***************************************************************************)
(* Model of the Claude proxy service: app/main.py (the FastAPI handlers    *)
(* and the registry active_processes) and app/claude_runner.py (spawning,  *)
(* the stop_agent termination loop, read_stream / async_read_stream).      *)
(*                                                                         *)
(* The handlers are coroutines of one asyncio event loop.  A handler that  *)
(* never awaits runs as one step.  main.stop_agent calls the synchronous   *)
(* ClaudeRunner.stop_agent (time.sleep polling) without awaiting: it keeps *)
(* the event loop for all of its steps, while the children and the         *)
(* executor's worker threads keep running.                                 *)
(***************************************************************************)
EXTENDS Integers, Sequences, FiniteSets, TLC

\* Bounds of the model.
MaxSessions == 2    \* processes spawned / agent ids issued in one run
MaxLines == 1       \* lines written by all children together (Spec)
MaxStreamLines == 3 \* lines written by the child of SpecStream
GraceTicks == 3     \* timeout of stop_agent, in units of half a sleep of its poll loop
PoolSize == 1       \* worker threads of the loop's default executor
PipeCapacity == 2   \* lines the buffer of an OS pipe holds before a write blocks

\* time.sleep(0.1) of the poll loop of stop_agent, in the units of GraceTicks.
PollInterval == 2

NL == "\n"
BadByte == "\\xff"  \* a byte that is not valid UTF-8

\* The character U+00E9 and the two bytes of its UTF-8 encoding.
EAcute == "\\u00e9"
Lead == "\\xc3"
Cont == "\\xa9"

\* The lines a child may write (without the terminator the pipe adds): in the
\* runs of many sessions, and in the runs of one stream.
Lines == { <<"a">>, <<BadByte>> }
StreamLines == { <<"a">>, <<" ", "b">>, <<>>, <<" ">>, <<BadByte>> }

\* Working directories of a request: absent (or ""), an existing directory,
\* a path that names no directory.
WorkDirs == {"none", "exists", "missing"}

AgentIds == 1..MaxSessions

NoStop == [agent |-> 0, handle |-> 0, phase |-> "idle", elapsed |-> 0]

VARIABLES
    cli_found,          \* whether claude_cli_path names an executable the shell finds
    active_processes,   \* main.py: the registry, agent id -> process handle
    issued,             \* number of agent ids uuid4 has produced
    proc,               \* handle -> the Popen object and its child process
    pipe,               \* handle -> the child's stdout pipe
    stream,             \* handle -> the SSE generator, its read job, its consumer
    queue,              \* the executor's FIFO of read jobs no worker has taken
    stop,               \* the stop_agent call that holds the event loop
    stopped,            \* history: the agent ids a StopSession has answered with success
    lastOp,             \* the response of the last request answered
    built,              \* a call of _build_command: its arguments and its result
    environ,            \* os.environ, the configuration and the mappings made for launches
    reads               \* an output of a child as bytes, and what the two readers make of it

vars == <<cli_found, active_processes, issued, proc, pipe, stream, queue, stop, stopped, lastOp, built, environ, reads>>

Handles == DOMAIN proc
LiveSessionCount == Cardinality(DOMAIN active_processes)

\* An event loop that a stop_agent call in progress does not hold.
LoopAlwaysFree == TRUE

\* stop_agent of main.py calls the runner without an await: nothing else
\* runs on the event loop until it has returned.
LoopFree == stop = NoStop

----------------------------------------------------------------------------
\* Text helpers of read_stream / async_read_stream.

IsSpace(c) == c \in {" ", NL, "\t", "\r"}

RECURSIVE LStrip(_)
LStrip(s) == IF s # <<>> /\ IsSpace(Head(s)) THEN LStrip(Tail(s)) ELSE s

RECURSIVE RStrip(_)
RStrip(s) ==
    IF s # <<>> /\ IsSpace(s[Len(s)]) THEN RStrip(SubSeq(s, 1, Len(s) - 1)) ELSE s

\* str.strip(): leading and trailing whitespace removed.
Strip(s) == RStrip(LStrip(s))

\* A decoder that accepts every byte.
DecodableAlways(s) == TRUE

\* bytes.decode("utf-8") raises on a malformed byte: on a byte that is never
\* valid, on a lead byte without its continuation and on a continuation
\* byte without its lead.
Decodable(s) ==
    \A i \in 1..Len(s) :
        /\ s[i] # BadByte
        /\ s[i] = Lead => i < Len(s) /\ s[i + 1] = Cont
        /\ s[i] = Cont => i > 1 /\ s[i - 1] = Lead

\* bytes.decode("utf-8") of well-formed bytes: the two bytes of the
\* character become the character, an ASCII byte stays.
RECURSIVE Decode(_)
Decode(s) ==
    IF s = <<>> THEN <<>>
    ELSE IF Head(s) = Lead /\ Len(s) >= 2 /\ s[2] = Cont
         THEN <<EAcute>> \o Decode(SubSeq(s, 3, Len(s)))
         ELSE <<Head(s)>> \o Decode(Tail(s))

\* What the pipe holds for a line the child wrote.
Terminated(l) == Append(l, NL)

----------------------------------------------------------------------------
\* State of a freshly spawned child and of what belongs to it.

\* term and kill count the calls of terminate() and kill() on the handle;
\* returncode tells whether the exit status has been collected
\* (Popen.returncode is not None); oserr counts the calls on the handle that
\* the operating system has refused.
NewProc == [state |-> "running", returncode |-> FALSE, term |-> 0, kill |-> 0, oserr |-> 0]

NewPipe == [written |-> <<>>, pos |-> 0, closed |-> FALSE]

\* gen: the position of event_generator ("none" for a process started by
\* /agent/start, which has no generator); worker: the state of the read_line
\* job handed to the executor; delivered: what the consumer has received.
NewStream(agent, streamed) ==
    [agent |-> agent, gen |-> IF streamed THEN "created" ELSE "none",
     worker |-> "idle", result |-> <<>>, delivered |-> <<>>]

Response(op, agent, status, detail, count) ==
    [op |-> op, agent |-> agent, status |-> status, detail |-> detail,
     count |-> count]

\* lastOp holds the response the step just taken has sent; a step that answers
\* no request leaves NoResponse.
NoResponse == Response("none", 0, 0, "", 0)

Data(text) == [type |-> "data", line |-> text]
Complete == [type |-> "complete", line |-> <<>>]
Error == [type |-> "error", line |-> <<>>]

----------------------------------------------------------------------------
\* ClaudeRunner._build_command and the shell that Popen(shell=True) hands
\* the command string to.  A string is a sequence of symbols: a symbol is a
\* word without characters special to the shell, or one of the characters
\* SP, DQ, SEMI, COMMA.

SP == " "
DQ == "\""
SEMI == ";"
COMMA == ","

\* claude_cli_path of the configuration.
CliPath == <<"claude">>

\* Prompts of a request: one word, words with a space, flag-like words, a
\* shell separator, a double quote followed by a separator and a command.
Prompts ==
    { <<"hi">>,
      <<"hi", SP, "there">>,
      <<"--model", SP, "x">>,
      <<"a", SEMI, "b">>,
      <<"a", DQ, SEMI, "rm", SP, DQ, "b">> }

\* Every value the options may carry, all keys present.
FullOptions ==
    [session_id : {<<"s1">>}, model : {<<"m1">>},
     allowed_tools : {<< >>, <<"Read">>, <<"Read", "Write">>},
     disallowed_tools : {<< >>, <<"Bash">>},
     mcp_config : {<<"cfg">>}, mcp_strict : {TRUE}]

OptionKeys ==
    {"session_id", "model", "allowed_tools", "disallowed_tools", "mcp_config", "mcp_strict"}

\* The options dictionaries: any subset of the keys.
OptionDicts == { [k \in K |-> full[k]] : full \in FullOptions, K \in SUBSET OptionKeys }

\* start_agent of main.py copies into the options the fields of
\* StartAgentRequest that are set; the request model has no field for the
\* capability lists.
RequestOptions(body) ==
    [k \in DOMAIN body \cap {"session_id", "model", "mcp_config", "mcp_strict"} |-> body[k]]

\* " ".join(parts)
RECURSIVE Join(_)
Join(parts) ==
    IF parts = << >> THEN << >>
    ELSE IF Len(parts) = 1 THEN Head(parts)
    ELSE Head(parts) \o <<SP>> \o Join(Tail(parts))

\* f'"{prompt}"'
Quoted(prompt) == <<DQ>> \o prompt \o <<DQ>>

\* The parts every command starts with.
BaseParts(prompt) ==
    << CliPath, <<"-p">>, Quoted(prompt), <<"--output-format">>, <<"stream-json">>,
       <<"--verbose">>, <<"--include-partial-messages">> >>

\* The parts a builder with the model flag first would add.
OptionPartsModelFirst(options) ==
    (IF "model" \in DOMAIN options
     THEN << <<"--model">>, options["model"] >> ELSE << >>)
    \o (IF "session_id" \in DOMAIN options
        THEN << <<"--session-id">>, options["session_id"] >> ELSE << >>)

\* The parts the options add: --session-id, then --model; nothing else of
\* the options is looked at.
OptionParts(options) ==
    (IF "session_id" \in DOMAIN options
     THEN << <<"--session-id">>, options["session_id"] >> ELSE << >>)
    \o (IF "model" \in DOMAIN options
        THEN << <<"--model">>, options["model"] >> ELSE << >>)

\* _build_command
BuildCommand(prompt, options) == Join(BaseParts(prompt) \o OptionParts(options))

\* No call of _build_command made yet, with its arguments.
Unbuilt(prompt, options, via) ==
    [prompt |-> prompt, options |-> options, via |-> via, done |-> FALSE, command |-> << >>]

NoBuild == Unbuilt(<< >>, << >>, "none")

\* The shell splits the string into commands at SEMI and into words at SP,
\* outside double quotes; the quotes delimit and are removed.
RECURSIVE ShellParse(_, _)
ShellParse(rest, st) ==
    LET words == IF st.started THEN Append(st.words, st.cur) ELSE st.words
        cmds == IF words # << >> THEN Append(st.cmds, words) ELSE st.cmds IN
    IF rest = << >> THEN [cmds |-> cmds, unterminated |-> st.inq]
    ELSE LET c == Head(rest) IN
         IF c = DQ
         THEN ShellParse(Tail(rest), [st EXCEPT !.inq = ~@, !.started = TRUE])
         ELSE IF c = SP /\ ~st.inq
         THEN ShellParse(Tail(rest), [st EXCEPT !.words = words, !.cur = << >>,
                                                !.started = FALSE])
         ELSE IF c = SEMI /\ ~st.inq
         THEN ShellParse(Tail(rest), [st EXCEPT !.cmds = cmds, !.words = << >>,
                                                !.cur = << >>, !.started = FALSE])
         ELSE ShellParse(Tail(rest), [st EXCEPT !.cur = Append(@, c), !.started = TRUE])

\* What /bin/sh -c makes of a command string: the commands, each with its
\* words, each word a string.
ShellWords(command) ==
    ShellParse(command, [inq |-> FALSE, cur |-> << >>, started |-> FALSE,
                         words |-> << >>, cmds |-> << >>])

\* _build_command is called: by start_agent of the runner with the options
\* main.py has made of the request, or directly with the options.
Build ==
    /\ ~built.done
    /\ built.via # "none"
    /\ built' = [built EXCEPT !.done = TRUE,
                   !.command = BuildCommand(built.prompt,
                                   IF built.via = "api" THEN RequestOptions(built.options)
                                   ELSE built.options)]
    /\ UNCHANGED <<cli_found, active_processes, issued, proc, pipe, stream, queue, stop,
                   stopped, lastOp, environ, reads>>

----------------------------------------------------------------------------
\* The environment of the child.  Mappings live in a heap and are named by
\* their position in it, so that two names of one mapping can be told from
\* two equal mappings; position 1 is os.environ.

MaxLaunches == 2

API_KEY == "ANTHROPIC_API_KEY"
USE_SUBSCRIPTION == "CLAUDE_USE_SUBSCRIPTION"

\* The environments the service may be started in.
AmbientEnvs ==
    { [k \in keys |-> CASE k = "PATH" -> "/usr/bin"
                        [] k = API_KEY -> "sk-ant"
                        [] OTHER -> sub] :
        keys \in { {"PATH"} \cup ks : ks \in SUBSET {API_KEY, USE_SUBSCRIPTION} },
        sub \in {"true", "false"} }

OsEnviron == 1

\* A copy that is the mapping itself under a second name.
CopyShared(heap, ref) == [heap |-> heap, ref |-> ref]

\* dict.copy(): a new mapping with the same items
Copy(heap, ref) == [heap |-> Append(heap, heap[ref]), ref |-> Len(heap) + 1]

\* A pop that leaves the key in.
PopNothing(mapping, key) == mapping

\* dict.pop(key, None): the key is removed when there, and its absence is no error
Pop(mapping, key) == [k \in DOMAIN mapping \ {key} |-> mapping[k]]

\* mapping[key] = value
SetItem(mapping, key, value) ==
    [k \in DOMAIN mapping \cup {key} |-> IF k = key THEN value ELSE mapping[k]]

\* _prepare_environment: the heap after the call and the mapping returned
PrepareEnvironment(heap, use_subscription) ==
    LET env == Copy(heap, OsEnviron)
        popped == [env.heap EXCEPT ![env.ref] = Pop(@, API_KEY)] IN
    [heap |-> IF use_subscription
              THEN [popped EXCEPT ![env.ref] = SetItem(@, USE_SUBSCRIPTION, "true")]
              ELSE popped,
     ref |-> env.ref]

\* The service started in an environment, with ClaudeRunnerConfig.use_subscription.
Started(ambient, use_subscription) ==
    [heap |-> <<ambient>>, use_subscription |-> use_subscription, launched |-> << >>]

\* start_agent prepares the environment of one launch and hands it to Popen.
PrepareEnv ==
    /\ Len(environ.launched) < MaxLaunches
    /\ LET r == PrepareEnvironment(environ.heap, environ.use_subscription) IN
         environ' = [environ EXCEPT !.heap = r.heap, !.launched = Append(@, r.ref)]
    /\ UNCHANGED <<cli_found, active_processes, issued, proc, pipe, stream, queue, stop,
                   stopped, lastOp, built, reads>>

----------------------------------------------------------------------------

\* A reader that has not run, and one that has run to its end.
NotRun == [done |-> FALSE, lines |-> <<>>, raised |-> FALSE]

Ran(result) == [done |-> TRUE, lines |-> result.lines, raised |-> result.raised]

\* A process that has written the chunks, or has no stdout handle, before a
\* reader has run.
Unread(stdout, chunks) ==
    [stdout |-> stdout, chunks |-> chunks, sync |-> NotRun, async |-> NotRun]

RECURSIVE SumWritten(_, _)
SumWritten(pp, n) == IF n = 0 THEN 0 ELSE Len(pp[n].written) + SumWritten(pp, n - 1)

TotalWritten == SumWritten(pipe, Len(pipe))

Init ==
    /\ cli_found \in BOOLEAN
    /\ active_processes = [x \in {} |-> 0]
    /\ issued = 0
    /\ proc = << >>
    /\ pipe = << >>
    /\ stream = << >>
    /\ queue = << >>
    /\ stop = NoStop
    /\ stopped = {}
    /\ lastOp = NoResponse
    /\ built = NoBuild
    /\ environ = Started([k \in {"PATH"} |-> "/usr/bin"], TRUE)
    /\ reads = Unread(FALSE, <<>>)

----------------------------------------------------------------------------
\* ClaudeRunner.start_agent

\* main.py copies working_directory into the options only when it is truthy,
\* and start_agent validates cwd only when it is truthy.
CwdOf(wd) == IF wd \in {"none", ""} THEN "none" ELSE wd

\* A check that accepts every path.
IsDirAlways(cwd) == TRUE

\* os.path.isdir of the expanded, absolute path.
IsDir(cwd) == cwd = "exists"

\* The outcome of ClaudeRunner.start_agent.  The command is run with
\* shell=True: Popen starts the shell, so it succeeds whether or not the
\* executable exists, and fails only when the OS refuses to create the
\* process (osOk = FALSE); a shell that does not find the executable writes
\* to its stderr and exits.  The RuntimeError of the directory check is no
\* OSError and passes the except clause unchanged.
RunnerStart(wd, osOk) ==
    IF CwdOf(wd) # "none" /\ ~IsDir(CwdOf(wd)) THEN "no_directory"
    ELSE IF ~osOk THEN "spawn_error"
    ELSE "process"

\* An id generator that hands out the lowest id not in the registry.
FreshIdReused == Cardinality(DOMAIN active_processes) + 1

\* uuid.uuid4(): an id no earlier call has returned.
FreshId == issued + 1

\* A start that does not insert the process into the registry.
TrackNothing(reg, a, h) == reg

\* active_processes[agent_id] = process
Track(reg, a, h) == [x \in DOMAIN reg \cup {a} |-> IF x = a THEN h ELSE reg[x]]

\* A delete that removes nothing.
UntrackNothing(reg, a) == reg

\* del active_processes[agent_id]
Untrack(reg, a) == [x \in DOMAIN reg \ {a} |-> reg[x]]

\* The body shared by start_agent and stream_agent of main.py.
Launch(op, streamed, wd, osOk) ==
    /\ LoopFree
    /\ LET outcome == RunnerStart(wd, osOk) IN
       IF outcome = "process"
       THEN /\ proc' = Append(proc, NewProc)
            /\ pipe' = Append(pipe, NewPipe)
            /\ stream' = Append(stream, NewStream(FreshId, streamed))
            /\ issued' = FreshId
            /\ active_processes' = Track(active_processes, FreshId, Len(proc) + 1)
            /\ lastOp' = Response(op, FreshId, 200, "started", 0)
       ELSE /\ lastOp' = Response(op, 0, 500, outcome, 0)
            /\ UNCHANGED <<active_processes, issued, proc, pipe, stream>>
    /\ UNCHANGED <<built, environ, reads, cli_found, stopped, queue, stop>>

\* POST /agent/start
StartAgent(wd, osOk) == Launch("start", FALSE, wd, osOk)

\* POST /agent/stream up to the return of the StreamingResponse
StreamAgent(wd, osOk) == Launch("stream", TRUE, wd, osOk)

\* GET /health
Health ==
    /\ LoopFree
    /\ lastOp' = Response("health", 0, 200, "ok", LiveSessionCount)
    /\ UNCHANGED <<built, environ, reads, cli_found, stopped, active_processes, issued, proc, pipe, stream, queue, stop>>

----------------------------------------------------------------------------
\* ClaudeRunner.stop_agent, run by POST /agent/stop/{agent_id}

\* Popen.poll(): collects the exit status of a child that has exited.
Poll(p) == IF p.state = "exited" THEN [p EXCEPT !.returncode = TRUE] ELSE p

\* A check of the returncode attribute in place of poll().
AlreadyStoppedNoPoll(p) == p.returncode

\* A check that takes a process that was sent a signal for stopped.
AlreadyStoppedOnceSignalled(p) == p.term > 0 \/ Poll(p).returncode

\* "process.poll() is not None" at the head of stop_agent.
AlreadyStopped(p) == Poll(p).returncode

\* process.terminate()
Terminate(p) == [p EXCEPT !.term = @ + 1]

\* stop_agent up to its first sleep: return at once for a process that has
\* exited, terminate() otherwise.
StopEntry(p) ==
    IF AlreadyStopped(p) THEN [proc |-> Poll(p), done |-> TRUE]
    ELSE [proc |-> Terminate(Poll(p)), done |-> FALSE]

\* process.kill()
Kill(p) == [p EXCEPT !.kill = @ + 1]

\* A loop that gives up after its first sleep.
GraceElapsedEarly(elapsed) == elapsed >= 1

\* The negation of the loop condition "time.time() - start_time < timeout".
GraceElapsed(elapsed) == elapsed >= GraceTicks

\* A stop_agent of main.py that returns without the delete.
StoppedKeepsEntry(a, how) ==
    /\ active_processes' = active_processes
    /\ lastOp' = Response("stop", a, 200, how, 0)
    /\ stop' = NoStop
    /\ stopped' = stopped \cup {a}

\* A lookup that finds every process ever spawned for the id.
LookupStale(reg, a) ==
    IF \E h \in Handles : stream[h].agent = a
    THEN CHOOSE h \in Handles : stream[h].agent = a
    ELSE 0

\* active_processes.get(agent_id); 0 stands for None.
Lookup(reg, a) == IF a \in DOMAIN reg THEN reg[a] ELSE 0

\* stop_agent of main.py returns {"status": "stopped"} after the delete.
Stopped(a, how) ==
    /\ active_processes' = Untrack(active_processes, a)
    /\ lastOp' = Response("stop", a, 200, how, 0)
    /\ stop' = NoStop
    /\ stopped' = stopped \cup {a}

\* The handler up to the first sleep: the lookup, the 404, the first poll,
\* terminate().
StopBegin(a) ==
    /\ LoopFree
    /\ LET h == Lookup(active_processes, a) IN
       IF h = 0
       THEN /\ lastOp' = Response("stop", a, 404, "not found", 0)
            /\ UNCHANGED <<active_processes, proc, stop, stopped>>
       ELSE /\ proc' = [proc EXCEPT ![h] = StopEntry(@).proc]
            /\ IF StopEntry(proc[h]).done
               THEN Stopped(a, "already")
               ELSE /\ stop' = [agent |-> a, handle |-> h, phase |-> "polling",
                                elapsed |-> 0]
                    /\ lastOp' = NoResponse
                    /\ UNCHANGED <<active_processes, stopped>>
    /\ UNCHANGED <<built, environ, reads, cli_found, issued, pipe, stream, queue>>

\* One turn of the poll loop: poll(), then return or sleep(0.1).
StopPoll ==
    /\ stop.phase = "polling"
    /\ ~GraceElapsed(stop.elapsed)
    /\ proc' = [proc EXCEPT ![stop.handle] = Poll(@)]
    /\ IF Poll(proc[stop.handle]).returncode
       THEN Stopped(stop.agent, "graceful")
       ELSE /\ stop' = [stop EXCEPT !.elapsed = @ + PollInterval]
            /\ lastOp' = NoResponse
            /\ UNCHANGED <<active_processes, stopped>>
    /\ UNCHANGED <<built, environ, reads, cli_found, issued, pipe, stream, queue>>

\* The loop has run out: process.kill().
StopKill ==
    /\ stop.phase = "polling"
    /\ GraceElapsed(stop.elapsed)
    /\ proc' = [proc EXCEPT ![stop.handle] = Kill(@)]
    /\ stop' = [stop EXCEPT !.phase = "waiting"]
    /\ lastOp' = NoResponse
    /\ UNCHANGED <<built, environ, reads, cli_found, stopped, active_processes, issued, pipe, stream, queue>>

\* process.wait() returns once the child has exited, and collects its status.
StopWait ==
    /\ stop.phase = "waiting"
    /\ proc[stop.handle].state = "exited"
    /\ proc' = [proc EXCEPT ![stop.handle] = Poll(@)]
    /\ Stopped(stop.agent, "killed")
    /\ UNCHANGED <<built, environ, reads, cli_found, issued, pipe, stream, queue>>

\* The operating system refuses a call of stop_agent (terminate(), kill() or
\* wait() raises OSError): at most MaxOsErrors times for a process.
MaxOsErrors == 1

Refused(p) == [p EXCEPT !.oserr = @ + 1]

\* An except clause that drops the entry of the session.
OsErrorUntracks(a) ==
    /\ active_processes' = Untrack(active_processes, a)
    /\ lastOp' = Response("stop", a, 500, "os error", 0)
    /\ stop' = NoStop
    /\ UNCHANGED stopped

\* "except Exception as e: raise HTTPException(status_code=500, ...)": the
\* delete is not reached.
OsError(a) ==
    /\ active_processes' = active_processes
    /\ lastOp' = Response("stop", a, 500, "os error", 0)
    /\ stop' = NoStop
    /\ UNCHANGED stopped

\* The handler up to terminate(), which raises.
StopTerminateRaises(a) ==
    /\ LoopFree
    /\ LET h == Lookup(active_processes, a) IN
         /\ h # 0
         /\ ~StopEntry(proc[h]).done
         /\ proc[h].oserr < MaxOsErrors
         /\ proc' = [proc EXCEPT ![h] = Refused(Poll(@))]
    /\ OsError(a)
    /\ UNCHANGED <<built, environ, reads, cli_found, issued, pipe, stream, queue>>

\* The loop has run out and kill() raises.
StopKillRaises ==
    /\ stop.phase = "polling"
    /\ GraceElapsed(stop.elapsed)
    /\ proc[stop.handle].oserr < MaxOsErrors
    /\ proc' = [proc EXCEPT ![stop.handle] = Refused(@)]
    /\ OsError(stop.agent)
    /\ UNCHANGED <<built, environ, reads, cli_found, issued, pipe, stream, queue>>

\* wait() raises after kill().
StopWaitRaises ==
    /\ stop.phase = "waiting"
    /\ proc[stop.handle].oserr < MaxOsErrors
    /\ proc' = [proc EXCEPT ![stop.handle] = Refused(@)]
    /\ OsError(stop.agent)
    /\ UNCHANGED <<built, environ, reads, cli_found, issued, pipe, stream, queue>>

----------------------------------------------------------------------------
\* The children.

\* The buffer of the pipe is full of unread lines: a write blocks.
PipeFull(pp) == Len(pp.written) - pp.pos >= PipeCapacity

\* A child writes one line to its stdout, once the pipe has room for it.
ChildWrite(h, l) ==
    /\ proc[h].state = "running"
    /\ cli_found
    /\ ~pipe[h].closed
    /\ ~PipeFull(pipe[h])
    /\ pipe' = [pipe EXCEPT ![h].written = Append(@, l)]
    /\ lastOp' = NoResponse
    /\ UNCHANGED <<built, environ, reads, cli_found, stopped, active_processes, issued, proc, stream, queue, stop>>

\* The last writer of the pipe closes it: the reader sees end-of-file after
\* the lines written so far.
ChildClose(h) ==
    /\ ~pipe[h].closed
    /\ pipe' = [pipe EXCEPT ![h].closed = TRUE]
    /\ lastOp' = NoResponse
    /\ UNCHANGED <<built, environ, reads, cli_found, stopped, active_processes, issued, proc, stream, queue, stop>>

\* The child exits: by itself, on SIGTERM, or on SIGKILL.
ChildExit(h) ==
    /\ proc[h].state = "running"
    /\ proc' = [proc EXCEPT ![h].state = "exited"]
    /\ lastOp' = NoResponse
    /\ UNCHANGED <<built, environ, reads, cli_found, stopped, active_processes, issued, pipe, stream, queue, stop>>

----------------------------------------------------------------------------
\* ClaudeRunner.async_read_stream and event_generator of stream_agent

\* A read that returns the newest line of the pipe.
ReadLineNewest(pp) ==
    IF pp.pos < Len(pp.written) THEN Terminated(pp.written[Len(pp.written)]) ELSE <<>>

\* process.stdout.readline(): the next line with its terminator, or the empty
\* bytes at end-of-file.
ReadLine(pp) ==
    IF pp.pos < Len(pp.written) THEN Terminated(pp.written[pp.pos + 1]) ELSE <<>>

\* readline consumes the line it returns.
Consume(pp) == IF pp.pos < Len(pp.written) THEN [pp EXCEPT !.pos = @ + 1] ELSE pp

\* An end-of-file test that takes a blank line for the end.
IsEofOnBlank(line) == Strip(line) = <<>>

\* readline blocks until a line or end-of-file is there.
Readable(pp) == pp.pos < Len(pp.written) \/ pp.closed

\* "if not line: break"
IsEof(line) == line = <<>>

\* A generator that yields every line, empty or not.
YieldsAlways(decoded) == TRUE

\* line.decode("utf-8").strip()
Decoded(line) == Strip(Decode(line))

\* "if decoded: yield decoded"
Yields(decoded) == decoded # <<>>

\* A finally clause that forgets the delete.
FinalizeForgets(reg, a) == reg

\* read_stream: the lines "for line in process.stdout" yields for the lines
\* written, up to end-of-file or to the line whose decode raises.
RECURSIVE ReadStream(_)
ReadStream(written) ==
    IF written = <<>> THEN [lines |-> <<>>, raised |-> FALSE]
    ELSE LET line == Terminated(Head(written)) IN
         IF ~Decodable(line) THEN [lines |-> <<>>, raised |-> TRUE]
         ELSE LET rest == ReadStream(Tail(written)) IN
              IF Yields(Decoded(line))
              THEN [rest EXCEPT !.lines = <<Decoded(line)>> \o @]
              ELSE rest

\* The finally clause of event_generator.
Finalize(reg, a) == IF a \in DOMAIN reg THEN Untrack(reg, a) ELSE reg

\* The worker threads that are inside readline.
Reading == {h \in Handles : stream[h].worker = "reading"}

\* loop.run_in_executor(None, read_line): the job joins the executor's queue.
Submit(h) ==
    /\ stream' = [stream EXCEPT ![h].gen = "awaiting", ![h].worker = "queued",
                                ![h].result = <<>>]
    /\ queue' = Append(queue, h)

\* The first pull of the response body starts the generator, which runs to
\* its first await.
GenStart(h) ==
    /\ LoopFree
    /\ stream[h].gen = "created"
    /\ Submit(h)
    /\ lastOp' = NoResponse
    /\ UNCHANGED <<built, environ, reads, cli_found, stopped, active_processes, issued, proc, pipe, stop>>

\* A free worker thread of the executor takes the oldest job and enters
\* readline.
WorkerPick ==
    /\ queue # <<>>
    /\ Cardinality(Reading) < PoolSize
    /\ stream' = [stream EXCEPT ![Head(queue)].worker = "reading"]
    /\ queue' = Tail(queue)
    /\ lastOp' = NoResponse
    /\ UNCHANGED <<built, environ, reads, cli_found, stopped, active_processes, issued, proc, pipe, stop>>

\* readline returns in the worker thread.  The result of a job whose
\* generator is gone is dropped.
WorkerRead(h) ==
    /\ stream[h].worker = "reading"
    /\ Readable(pipe[h])
    /\ pipe' = [pipe EXCEPT ![h] = Consume(@)]
    /\ stream' = IF stream[h].gen = "awaiting"
                 THEN [stream EXCEPT ![h].worker = "done", ![h].result = ReadLine(pipe[h])]
                 ELSE [stream EXCEPT ![h].worker = "idle"]
    /\ lastOp' = NoResponse
    /\ UNCHANGED <<built, environ, reads, cli_found, stopped, active_processes, issued, proc, queue, stop>>

\* The event loop resumes the generator with the line read: end-of-file ends
\* the stream with the completion event, a decode error with the error event
\* (both then run the finally clause), a non-empty line is yielded, an empty
\* one goes back to the read.
GenResume(h) ==
    /\ LoopFree
    /\ stream[h].gen = "awaiting"
    /\ stream[h].worker = "done"
    /\ LET line == stream[h].result
           rest == [stream[h] EXCEPT !.worker = "idle", !.result = <<>>] IN
       IF IsEof(line)
       THEN /\ stream' = [stream EXCEPT ![h] =
                    [rest EXCEPT !.gen = "closed", !.delivered = Append(@, Complete)]]
            /\ active_processes' = Finalize(active_processes, stream[h].agent)
            /\ UNCHANGED queue
       ELSE IF ~Decodable(line)
       THEN /\ stream' = [stream EXCEPT ![h] =
                    [rest EXCEPT !.gen = "closed", !.delivered = Append(@, Error)]]
            /\ active_processes' = Finalize(active_processes, stream[h].agent)
            /\ UNCHANGED queue
       ELSE IF Yields(Decoded(line))
       THEN /\ stream' = [stream EXCEPT ![h] =
                    [rest EXCEPT !.gen = "yielded",
                                 !.delivered = Append(@, Data(Decoded(line)))]]
            /\ UNCHANGED <<active_processes, queue>>
       ELSE /\ Submit(h)
            /\ UNCHANGED active_processes
    /\ lastOp' = NoResponse
    /\ UNCHANGED <<built, environ, reads, cli_found, stopped, issued, proc, pipe, stop>>

\* The consumer pulls again: the generator leaves the yield and awaits the
\* next read.
GenNext(h) ==
    /\ LoopFree
    /\ stream[h].gen = "yielded"
    /\ Submit(h)
    /\ lastOp' = NoResponse
    /\ UNCHANGED <<built, environ, reads, cli_found, stopped, active_processes, issued, proc, pipe, stop>>

RECURSIVE Without(_, _)
Without(q, h) ==
    IF q = <<>> THEN <<>>
    ELSE IF Head(q) = h THEN Without(Tail(q), h)
    ELSE <<Head(q)>> \o Without(Tail(q), h)

\* A cancellation that also terminates the child.
GenCancelTerminates(h) ==
    /\ LoopFree
    /\ stream[h].gen \in {"created", "awaiting", "yielded"}
    /\ active_processes' = Finalize(active_processes, stream[h].agent)
    /\ proc' = [proc EXCEPT ![h] = Terminate(@)]
    /\ stream' = [stream EXCEPT ![h].gen = "closed", ![h].result = <<>>,
                    ![h].worker = IF @ = "reading" THEN "reading" ELSE "idle"]
    /\ queue' = Without(queue, h)
    /\ lastOp' = NoResponse
    /\ UNCHANGED <<built, environ, reads, cli_found, stopped, issued, pipe, stop>>

\* A cancellation that the generator reports by the error event.
GenCancelReportsError(h) ==
    /\ LoopFree
    /\ stream[h].gen \in {"created", "awaiting", "yielded"}
    /\ active_processes' = IF stream[h].gen = "created" THEN active_processes
                           ELSE Finalize(active_processes, stream[h].agent)
    /\ stream' = [stream EXCEPT ![h].gen = "closed", ![h].result = <<>>,
                    ![h].delivered = Append(@, Error),
                    ![h].worker = IF @ = "reading" THEN "reading" ELSE "idle"]
    /\ queue' = Without(queue, h)
    /\ lastOp' = NoResponse
    /\ UNCHANGED <<built, environ, reads, cli_found, stopped, issued, proc, pipe, stop>>

\* The consumer goes away.  A generator that has not started is dropped
\* without running any of its code; one that has started is closed at its
\* await or yield, which runs the finally clause (CancelledError and
\* GeneratorExit are no Exception).  A job still queued is cancelled, one a
\* worker is already running stays in readline.
GenCancel(h) ==
    /\ LoopFree
    /\ stream[h].gen \in {"created", "awaiting", "yielded"}
    /\ active_processes' = IF stream[h].gen = "created" THEN active_processes
                           ELSE Finalize(active_processes, stream[h].agent)
    /\ stream' = [stream EXCEPT ![h].gen = "closed", ![h].result = <<>>,
                    ![h].worker = IF @ = "reading" THEN "reading" ELSE "idle"]
    /\ queue' = Without(queue, h)
    /\ lastOp' = NoResponse
    /\ UNCHANGED <<built, environ, reads, cli_found, stopped, issued, proc, pipe, stop>>

----------------------------------------------------------------------------
\* The two readers of ClaudeRunner on the bytes of a pipe.  The output of a
\* child reaches the reader in chunks, one chunk for each read of the
\* descriptor, cut where the operating system happens to cut.

MaxBytes == 4

Bytes == {"a", " ", NL, Lead, Cont}

ByteStrings == UNION { [1..n -> Bytes] : n \in 0..MaxBytes }

\* The ways the bytes written may arrive: every cut into non-empty chunks.
RECURSIVE Chunkings(_)
Chunkings(s) ==
    IF s = <<>> THEN { <<>> }
    ELSE UNION { { <<SubSeq(s, 1, k)>> \o rest : rest \in Chunkings(SubSeq(s, k + 1, Len(s))) } :
                 k \in 1..Len(s) }

RECURSIVE Concat(_)
Concat(chunks) == IF chunks = <<>> THEN <<>> ELSE Head(chunks) \o Concat(Tail(chunks))

\* The position of the first terminator of a buffer, 0 when it has none.
FirstNL(buf) ==
    IF \E i \in 1..Len(buf) : buf[i] = NL
    THEN CHOOSE i \in 1..Len(buf) : buf[i] = NL /\ \A j \in 1..(i - 1) : buf[j] # NL
    ELSE 0

\* A readline that returns what one read of the descriptor gave.
RECURSIVE ReadlineUnbuffered(_, _)
ReadlineUnbuffered(buf, chunks) ==
    IF FirstNL(buf) > 0
    THEN [line |-> SubSeq(buf, 1, FirstNL(buf)),
          buf |-> SubSeq(buf, FirstNL(buf) + 1, Len(buf)), chunks |-> chunks]
    ELSE IF buf # <<>> \/ chunks = <<>> THEN [line |-> buf, buf |-> <<>>, chunks |-> chunks]
    ELSE ReadlineUnbuffered(Head(chunks), Tail(chunks))

\* process.stdout.readline() on the buffered reader of the pipe: the bytes up
\* to and with the next terminator, read from the descriptor chunk by chunk
\* until the terminator or end-of-file is there; at end-of-file what is left,
\* which is empty when nothing is.
RECURSIVE BufferedReadline(_, _)
BufferedReadline(buf, chunks) ==
    IF FirstNL(buf) > 0
    THEN [line |-> SubSeq(buf, 1, FirstNL(buf)),
          buf |-> SubSeq(buf, FirstNL(buf) + 1, Len(buf)), chunks |-> chunks]
    ELSE IF chunks = <<>> THEN [line |-> buf, buf |-> <<>>, chunks |-> chunks]
    ELSE BufferedReadline(buf \o Head(chunks), Tail(chunks))

Nothing == [lines |-> <<>>, raised |-> FALSE]
Raised == [lines |-> <<>>, raised |-> TRUE]

\* The loop of read_stream: "for line in process.stdout" takes lines from
\* readline until it returns no bytes.
RECURSIVE ReadStreamLoop(_, _)
ReadStreamLoop(buf, chunks) ==
    LET r == BufferedReadline(buf, chunks) IN
    IF r.line = <<>> THEN Nothing
    ELSE IF ~Decodable(r.line) THEN Raised
    ELSE LET rest == ReadStreamLoop(r.buf, r.chunks) IN
         IF Yields(Decoded(r.line))
         THEN [rest EXCEPT !.lines = <<Decoded(r.line)>> \o @]
         ELSE rest

\* read_stream on a process with or without a stdout handle
ReadStreamBytes(stdout, chunks) ==
    IF ~stdout THEN Nothing ELSE ReadStreamLoop(<<>>, chunks)

\* An asynchronous loop that ends at the first line it does not yield.
RECURSIVE AsyncReadLoopEndsOnBlank(_, _)
AsyncReadLoopEndsOnBlank(buf, chunks) ==
    LET r == BufferedReadline(buf, chunks) IN
    IF IsEof(r.line) THEN Nothing
    ELSE IF ~Decodable(r.line) THEN Raised
    ELSE IF Yields(Decoded(r.line))
         THEN [AsyncReadLoopEndsOnBlank(r.buf, r.chunks) EXCEPT !.lines = <<Decoded(r.line)>> \o @]
         ELSE Nothing

\* The loop of async_read_stream: "while True" around the readline run in
\* the executor, left at end-of-file.
RECURSIVE AsyncReadLoop(_, _)
AsyncReadLoop(buf, chunks) ==
    LET r == BufferedReadline(buf, chunks) IN
    IF IsEof(r.line) THEN Nothing
    ELSE IF ~Decodable(r.line) THEN Raised
    ELSE LET rest == AsyncReadLoop(r.buf, r.chunks) IN
         IF Yields(Decoded(r.line))
         THEN [rest EXCEPT !.lines = <<Decoded(r.line)>> \o @]
         ELSE rest

\* async_read_stream on a process with or without a stdout handle
AsyncReadStream(stdout, chunks) ==
    IF ~stdout THEN Nothing ELSE AsyncReadLoop(<<>>, chunks)

\* read_stream is run to its end.
ReadSync ==
    /\ ~reads.sync.done
    /\ reads' = [reads EXCEPT !.sync = Ran(ReadStreamBytes(reads.stdout, reads.chunks))]
    /\ UNCHANGED <<cli_found, active_processes, issued, proc, pipe, stream, queue, stop,
                   stopped, lastOp, built, environ>>

\* async_read_stream is run to its end.
ReadAsync ==
    /\ ~reads.async.done
    /\ reads' = [reads EXCEPT !.async = Ran(AsyncReadStream(reads.stdout, reads.chunks))]
    /\ UNCHANGED <<cli_found, active_processes, issued, proc, pipe, stream, queue, stop,
                   stopped, lastOp, built, environ>>

----------------------------------------------------------------------------

\* The steps of the system with at most maxSessions processes spawned and
\* at most maxLines lines, taken from lines, written.
Step(maxSessions, lines, maxLines) ==
    \/ \E wd \in WorkDirs, osOk \in BOOLEAN :
          Len(proc) < maxSessions /\ StartAgent(wd, osOk)
    \/ \E wd \in WorkDirs, osOk \in BOOLEAN :
          Len(proc) < maxSessions /\ StreamAgent(wd, osOk)
    \/ Health
    \/ \E a \in AgentIds : StopBegin(a)
    \/ StopPoll
    \/ StopKill
    \/ StopWait
    \/ WorkerPick
    \/ \E h \in Handles, l \in lines : TotalWritten < maxLines /\ ChildWrite(h, l)
    \/ \E h \in Handles : ChildClose(h)
    \/ \E h \in Handles : ChildExit(h)
    \/ \E h \in Handles : GenStart(h)
    \/ \E h \in Handles : WorkerRead(h)
    \/ \E h \in Handles : GenResume(h)
    \/ \E h \in Handles : GenNext(h)
    \/ \E h \in Handles : GenCancel(h)

Next == Step(MaxSessions, Lines, MaxLines)

\* Many sessions, few lines.
Spec == Init /\ [][Next]_vars

NextStream == Step(1, StreamLines, MaxStreamLines)

\* One session, whose child writes lines of every kind.
SpecStream == Init /\ [][NextStream]_vars

NextOsError ==
    \/ Step(1, Lines, MaxLines)
    \/ \E a \in AgentIds : StopTerminateRaises(a)
    \/ StopKillRaises
    \/ StopWaitRaises

\* The sessions with an operating system that may refuse the calls of
\* stop_agent.
SpecOsError == Init /\ [][NextOsError]_vars

\* What the scheduling guarantees: a stop_agent call that has begun runs on,
\* a free worker thread takes a queued job, a readline that can return does,
\* the event loop resumes a generator whose read is done, the server keeps
\* pulling the body of a response whose consumer is there, a child that was
\* sent SIGKILL exits, and the pipe of a child that has exited is closed.
\* Nothing makes a client send a request, a child write, or a child that
\* was not killed exit.
Fairness ==
    /\ WF_vars(StopPoll) /\ WF_vars(StopKill) /\ WF_vars(StopWait)
    /\ WF_vars(WorkerPick)
    /\ \A h \in 1..MaxSessions :
          /\ WF_vars(h \in Handles /\ WorkerRead(h))
          /\ WF_vars(h \in Handles /\ GenStart(h))
          /\ WF_vars(h \in Handles /\ GenResume(h))
          /\ WF_vars(h \in Handles /\ GenNext(h))
          /\ WF_vars(h \in Handles /\ proc[h].kill > 0 /\ ChildExit(h))
          /\ WF_vars(h \in Handles /\ proc[h].state = "exited" /\ ChildClose(h))

FairSpec == Init /\ [][Next]_vars /\ Fairness

FairSpecStream == Init /\ [][NextStream]_vars /\ Fairness

\* The calls of _build_command, one call for each prompt and options, and
\* the environments prepared for the launches of a service.
InitCommand ==
    /\ cli_found = TRUE
    /\ active_processes = [x \in {} |-> 0]
    /\ issued = 0
    /\ proc = << >>
    /\ pipe = << >>
    /\ stream = << >>
    /\ queue = << >>
    /\ stop = NoStop
    /\ stopped = {}
    /\ lastOp = NoResponse
    /\ \E prompt \in Prompts, options \in OptionDicts, via \in {"runner", "api"} :
          built = Unbuilt(prompt, options, via)
    /\ \E ambient \in AmbientEnvs, use_subscription \in BOOLEAN :
          environ = Started(ambient, use_subscription)
    /\ reads = Unread(FALSE, <<>>)

NextCommand == Build \/ PrepareEnv

SpecCommand == InitCommand /\ [][NextCommand]_vars

\* The readers applied to every output of at most MaxBytes bytes, cut into
\* chunks in every way, and to a process without a stdout handle.
InitBytes ==
    /\ cli_found = TRUE
    /\ active_processes = [x \in {} |-> 0]
    /\ issued = 0
    /\ proc = << >>
    /\ pipe = << >>
    /\ stream = << >>
    /\ queue = << >>
    /\ stop = NoStop
    /\ stopped = {}
    /\ lastOp = NoResponse
    /\ built = NoBuild
    /\ environ = Started([k \in {"PATH"} |-> "/usr/bin"], TRUE)
    /\ \/ reads = Unread(FALSE, <<>>)
       \/ \E s \in ByteStrings : \E chunks \in Chunkings(s) : reads = Unread(TRUE, chunks)

NextBytes == ReadSync \/ ReadAsync

SpecBytes == InitBytes /\ [][NextBytes]_vars

----------------------------------------------------------------------------
\* Properties.

Registered(a) == a \in DOMAIN active_processes
Last(q) == q[Len(q)]
Completed(h) == stream[h].delivered # <<>> /\ Last(stream[h].delivered) = Complete

\* C1: every session StartSession or the streaming start puts into the
\* registry is eventually removed from it: here, a registered session whose
\* child has exited and whose output has ended eventually leaves the
\* registry.
C1_EventuallyRemoved ==
    \A a \in AgentIds :
        (Registered(a) /\ proc[active_processes[a]].state = "exited"
                       /\ pipe[active_processes[a]].closed)
            ~> ~Registered(a)

\* The steps in which a stream reaches completion: the generator reads
\* end-of-file and sends the completion event.
Completes(h) == GenResume(h) /\ IsEof(stream[h].result)

\* C2 (as stated): a successful StartSession makes LiveSessionCount one
\* greater, and the completion of a session's stream or a successful
\* StopSession makes it one smaller.
C2_CountByOne ==
    [][/\ (lastOp'.op \in {"start", "stream"} /\ lastOp'.status = 200)
            => LiveSessionCount' = LiveSessionCount + 1
       /\ (lastOp'.op = "stop" /\ lastOp'.status = 200)
            => LiveSessionCount' = LiveSessionCount - 1
       /\ \A h \in Handles :
            Completes(h) => LiveSessionCount' = LiveSessionCount - 1]_vars

\* C2 (amended): a successful StartSession makes LiveSessionCount one
\* greater and a successful StopSession makes it one smaller; the completion
\* of a session's stream makes it one smaller when the session is still
\* registered, and leaves it unchanged when a StopSession has removed the
\* session before.
C2_CountOncePerSession ==
    [][/\ (lastOp'.op \in {"start", "stream"} /\ lastOp'.status = 200)
            => LiveSessionCount' = LiveSessionCount + 1
       /\ (lastOp'.op = "stop" /\ lastOp'.status = 200)
            => LiveSessionCount' = LiveSessionCount - 1
       /\ \A h \in Handles :
            Completes(h) =>
                LiveSessionCount' =
                    IF Registered(stream[h].agent) THEN LiveSessionCount - 1
                    ELSE LiveSessionCount]_vars

\* A stream has completed after a StopSession had removed its session, and
\* another session is still counted.
C2_Witness ==
    \E h \in Handles :
        /\ Completed(h)
        /\ stream[h].agent \in stopped
        /\ LiveSessionCount = 1

\* C3: a StopSession on an id for which an earlier StopSession succeeded, and
\* a StopSession on any id that is not in the registry, is answered NotFound
\* (404).
C3_StopAgainNotFound ==
    [][\A a \in AgentIds :
          (StopBegin(a) /\ (a \in stopped \/ ~Registered(a)))
              => lastOp' = Response("stop", a, 404, "not found", 0)]_vars

\* The second StopSession on a stopped session has been answered 404.
C3_Witness ==
    /\ lastOp.op = "stop"
    /\ lastOp.status = 404
    /\ lastOp.agent \in stopped

\* The handle of the process spawned for agent a.
HandleOf(a) == CHOOSE h \in Handles : stream[h].agent = a

C4_State ==
    /\ \A h \in Handles : proc[h].term <= 1 /\ proc[h].kill <= proc[h].term
    /\ stop.phase = "polling" =>
          /\ proc[stop.handle].term = 1
          /\ proc[stop.handle].kill = 0
          /\ ~proc[stop.handle].returncode
    /\ stop.phase = "waiting" =>
          /\ proc[stop.handle].term = 1
          /\ proc[stop.handle].kill = 1
          /\ stop.elapsed >= GraceTicks
    /\ (lastOp.op = "stop" /\ lastOp.detail = "graceful") =>
          /\ proc[HandleOf(lastOp.agent)].term = 1
          /\ proc[HandleOf(lastOp.agent)].kill = 0
          /\ proc[HandleOf(lastOp.agent)].returncode
    /\ (lastOp.op = "stop" /\ lastOp.detail = "killed") =>
          /\ proc[HandleOf(lastOp.agent)].kill = 1
          /\ proc[HandleOf(lastOp.agent)].state = "exited"
          /\ proc[HandleOf(lastOp.agent)].returncode

C4_Signals ==
    \A h \in Handles :
        /\ proc'[h].term > proc[h].term =>
              /\ proc[h].state = "running"
              /\ proc[h].term = 0
              /\ stop'.handle = h /\ stop'.phase = "polling"
        /\ proc'[h].kill > proc[h].kill =>
              /\ stop.handle = h /\ stop.phase = "polling"
              /\ stop.elapsed >= GraceTicks
              /\ ~proc[h].returncode
              /\ stop'.phase = "waiting"

\* C4: stop_agent on a running process calls terminate() once and then
\* polls; a call that sees the exit while polling returns without kill();
\* kill() is called only when the grace period has run out with no exit
\* seen, and the call then returns only when the child has exited and its
\* status is collected.
C4_StopMachine == [][C4_Signals /\ C4_State']_vars

\* A StopSession has ended by kill() and wait().
C4_Witness == lastOp.op = "stop" /\ lastOp.detail = "killed"

\* C5: stop_agent on a process that has exited, or on one an earlier
\* stop_agent has returned for, returns at once: no terminate(), no kill(),
\* the process as it was (a second call changes nothing at all; a first call
\* on an exited process only collects the exit status).
C5_Idempotent ==
    \A h \in Handles :
        /\ proc[h].state = "exited" =>
              /\ StopEntry(proc[h]).done
              /\ StopEntry(proc[h]).proc = [proc[h] EXCEPT !.returncode = TRUE]
        /\ stream[h].agent \in stopped =>
              /\ StopEntry(proc[h]).done
              /\ StopEntry(proc[h]).proc = proc[h]

\* A StopSession has found its process exited and returned at once.
C5_Witness ==
    /\ lastOp.op = "stop"
    /\ lastOp.detail = "already"
    /\ proc[HandleOf(lastOp.agent)].term = 0
    /\ proc[HandleOf(lastOp.agent)].kill = 0

\* C6: when the executable cannot be found, or the OS refuses to create the
\* process, StartSession and the streaming start answer with an error, issue
\* no id and add nothing to the registry.
C6_LaunchFailure ==
    [][\A wd \in WorkDirs, osOk \in BOOLEAN :
          ((StartAgent(wd, osOk) \/ StreamAgent(wd, osOk)) /\ (~cli_found \/ ~osOk))
              => /\ lastOp'.status = 500
                 /\ issued' = issued
                 /\ active_processes' = active_processes]_vars

\* C7: StartSession and the streaming start with a working directory that
\* names no existing directory answer with an error, spawn no process and
\* add nothing to the registry.
C7_NoSpawnWithoutDirectory ==
    [][\A osOk \in BOOLEAN :
          (StartAgent("missing", osOk) \/ StreamAgent("missing", osOk))
              => /\ lastOp'.status = 500
                 /\ lastOp'.detail = "no_directory"
                 /\ proc' = proc
                 /\ issued' = issued
                 /\ active_processes' = active_processes]_vars

\* A start with a missing directory has been refused while a session runs.
C7_Witness ==
    /\ lastOp.status = 500
    /\ lastOp.detail = "no_directory"
    /\ Len(proc) = 1

\* The consumer of h's stream is there and a line the child wrote has not
\* reached it.
Undelivered(h) ==
    /\ h \in Handles
    /\ stream[h].gen \in {"created", "awaiting", "yielded"}
    /\ pipe[h].pos < Len(pipe[h].written) \/ stream[h].worker = "done"

\* C8: a line one streaming session's child has written is eventually
\* delivered to that session's consumer (or the stream ends), whatever the
\* children of the other sessions do.
C8_NoStarvation ==
    \A h \in 1..MaxSessions : Undelivered(h) ~> ~Undelivered(h)

\* C9: while a StopSession waits out its grace period on one id, a
\* LiveSessionCount, a StartSession, a StopSession on another id and the
\* delivery of a line already read for another session can proceed.
C9_StopDoesNotBlock ==
    stop.phase = "polling" =>
        /\ ENABLED Health
        /\ \A a \in AgentIds \ {stop.agent} : ENABLED StopBegin(a)
        /\ Len(proc) < MaxSessions => ENABLED StartAgent("none", TRUE)
        /\ \A h \in Handles \ {stop.handle} :
              (stream[h].gen = "awaiting" /\ stream[h].worker = "done")
                  => ENABLED GenResume(h)

\* The texts of the data events of a delivery.
RECURSIVE DataLines(_)
DataLines(events) ==
    IF events = <<>> THEN <<>>
    ELSE IF Head(events).type = "data"
         THEN <<Head(events).line>> \o DataLines(Tail(events))
         ELSE DataLines(Tail(events))

\* The lines written that are not empty once stripped, in the order written.
RECURSIVE Texts(_)
Texts(lines) ==
    IF lines = <<>> THEN <<>>
    ELSE IF Strip(Head(lines)) # <<>>
         THEN <<Strip(Head(lines))>> \o Texts(Tail(lines))
         ELSE Texts(Tail(lines))

IsPrefix(p, q) == Len(p) <= Len(q) /\ SubSeq(q, 1, Len(p)) = p

WaitsForWrittenLine(h) ==
    /\ h \in Handles
    /\ stream[h].gen = "awaiting"
    /\ stream[h].worker \in {"queued", "reading"}
    /\ pipe[h].pos < Len(pipe[h].written)

\* C11: a line the child has written is delivered without waiting for a
\* further line or for the exit of the child: a generator that waits for a
\* line already written eventually gets it, whatever the child does next.
C11_DeliveredWhenAvailable ==
    \A h \in 1..MaxSessions : WaitsForWrittenLine(h) ~> ~WaitsForWrittenLine(h)

\* The pipe of h is at end-of-file for its reader.
AtEof(pp) == pp.closed /\ pp.pos = Len(pp.written)

\* C12: the completion event is sent only once the pipe has reached
\* end-of-file and every line written has been read, it is sent when
\* end-of-file is read, it comes after the last line, and nothing is
\* delivered after it.
C12_EndsAtEof ==
    [][\A h \in Handles :
          /\ Completed(h)' => AtEof(pipe[h])
          /\ Completed(h)' => DataLines(stream[h].delivered') = Texts(pipe[h].written)
          /\ (GenResume(h) /\ stream[h].result = <<>>) => Completed(h)'
          /\ Completed(h) => stream'[h].delivered = stream[h].delivered]_vars

\* A stream has completed after a line, with the line before end-of-file
\* an empty one.
C12_Witness ==
    \E h \in Handles :
        /\ Completed(h)
        /\ Len(pipe[h].written) = 2
        /\ pipe[h].written[2] = <<>>
        /\ Len(stream[h].delivered) = 2

Errors(events) == {i \in DOMAIN events : events[i] = Error}

\* C13: a line that cannot be decoded is reported by one error event, which
\* is the last event of the stream: no line and no completion event follow,
\* the read is not submitted again, and the session is out of the registry.
C13_ErrorEndsStream ==
    [][\A h \in Handles :
          /\ (GenResume(h) /\ stream[h].result = Terminated(<<BadByte>>))
                => Last(stream'[h].delivered) = Error
          /\ Errors(stream'[h].delivered) # {} =>
                /\ Errors(stream'[h].delivered) = {Len(stream'[h].delivered)}
                /\ Complete \notin {stream'[h].delivered[i] : i \in DOMAIN stream'[h].delivered}
                /\ stream'[h].gen = "closed"
                /\ stream'[h].worker = "idle"
                /\ \A i \in DOMAIN queue' : queue'[i] # h
                /\ ~Registered(stream[h].agent)']_vars

\* A stream has ended with the error event after a line was delivered.
C13_Witness ==
    \E h \in Handles :
        /\ Len(stream[h].delivered) = 2
        /\ stream[h].delivered[1] = Data(<<"a">>)
        /\ stream[h].delivered[2] = Error

\* C14: a stream that has been finalized, by completion, by an error or by
\* the consumer going away at any moment after the streaming start has
\* registered the session, has its session id out of the registry.
C14_FinalizedIsUnregistered ==
    \A h \in Handles : stream[h].gen = "closed" => ~Registered(stream[h].agent)

\* C15: the cancellation of a stream sends the child no signal and leaves
\* the process as it was.
C15_CancelKeepsChild ==
    [][\A h \in Handles : GenCancel(h) => proc' = proc]_vars

\* A stream was cancelled while its read was in progress, and the child
\* runs on with no signal sent to it.
C15_Witness ==
    \E h \in Handles :
        /\ stream[h].gen = "closed"
        /\ stream[h].delivered = <<>>
        /\ ~Registered(stream[h].agent)
        /\ stream[h].agent \notin stopped
        /\ proc[h] = NewProc

\* C16: after the cancellation of a stream no worker thread stays blocked in
\* a read of that session's pipe, and no further line of it is forwarded.
C16_CancelStopsWorker ==
    \A h \in Handles :
        stream[h].gen = "closed" =>
            /\ stream[h].worker # "reading"
            /\ stream[h].result = <<>>

\* StopSession has stopped the session of h while the generator of its
\* stream waits in a read.
StoppedDuringRead(h) ==
    /\ h \in Handles
    /\ stream[h].agent \in stopped
    /\ stream[h].gen = "awaiting"

\* C17: when StopSession has terminated the process of a session whose
\* stream is in a read, the read observes end-of-stream and the stream
\* ends: the read does not hang.
C17_StopEndsRead ==
    \A h \in 1..MaxSessions : StoppedDuringRead(h) ~> ~StoppedDuringRead(h)

\* The child of h belongs to a session started without a stream.
Unstreamed(h) == h \in Handles /\ stream[h].gen = "none"

\* C18: every started child is eventually reaped, however its session ends;
\* stated here for the sessions StartSession creates: a child that has
\* exited eventually has its exit status collected.
C18_EventuallyReaped ==
    \A h \in 1..MaxSessions :
        (Unstreamed(h) /\ proc[h].state = "exited")
            ~> (Unstreamed(h) /\ proc[h].returncode)

\* The child of h runs and cannot write: its stdout pipe is full.
Blocked(h) ==
    /\ h \in Handles
    /\ proc[h].state = "running"
    /\ ~pipe[h].closed
    /\ PipeFull(pipe[h])

\* C19: the pipes of every child are drained while it runs, so that no child
\* stays blocked on a full pipe for ever; stated here for the sessions
\* StartSession creates: a child blocked on its full stdout pipe eventually
\* is blocked no more.
C19_PipesDrained ==
    \A h \in 1..MaxSessions :
        (Unstreamed(h) /\ Blocked(h)) ~> ~(Unstreamed(h) /\ Blocked(h))

\* The children that have been spawned and have not exited.
ActiveChildren == {h \in Handles : proc[h].state = "running"}

\* C20: in every reachable state the registry has as many entries as there
\* are children that have been spawned and have not exited.
C20_CountIsActive == LiveSessionCount = Cardinality(ActiveChildren)

\* C21: in every reachable state each id of the registry maps to a process
\* whose exit status has not been collected.
C21_RegisteredNotReaped ==
    \A a \in DOMAIN active_processes : ~proc[active_processes[a]].returncode

\* A StopSession has collected the exit status of one process and removed
\* its session, while another session is in the registry.
C21_Witness ==
    \E h \in Handles :
        /\ proc[h].returncode
        /\ ~Registered(stream[h].agent)
        /\ LiveSessionCount = 1

\* C22: the exit status of a process is never collected while the read of
\* its stream's worker is in progress.
C22_NotReapedDuringRead ==
    [][\A h \in Handles :
          (stream[h].gen = "awaiting" /\ stream[h].worker = "reading")
              => (proc'[h].returncode => proc[h].returncode)]_vars

\* C23: no two sessions share a process handle, an id in the registry
\* stays bound to the process it was issued for, and an id that has been
\* issued is never issued again, also after its session was removed.
C23_OneToOne ==
    [][/\ \A a, b \in DOMAIN active_processes' :
             active_processes'[a] = active_processes'[b] => a = b
       /\ \A a \in DOMAIN active_processes' :
             /\ active_processes'[a] \in DOMAIN proc'
             /\ stream'[active_processes'[a]].agent = a
       /\ \A a \in AgentIds :
             (a <= issued /\ ~Registered(a)) => ~Registered(a)'
       /\ \A h \in Handles : stream'[h].agent = stream[h].agent]_vars

\* A second session is in the registry after the first one was removed.
C23_Witness ==
    /\ issued = 2
    /\ ~Registered(1)
    /\ Registered(2)
    /\ active_processes[2] = 2

\* C24: a lookup never sees a partly built entry: every id of the registry
\* is bound to a process that was fully spawned, and the id a start has
\* answered with is in the registry, bound to the process just spawned,
\* when the response is produced.
C24_AtomicCreation ==
    /\ \A a \in DOMAIN active_processes :
          /\ active_processes[a] \in Handles
          /\ active_processes[a] \in DOMAIN pipe
          /\ proc[active_processes[a]].state \in {"running", "exited"}
    /\ (lastOp.op \in {"start", "stream"} /\ lastOp.status = 200) =>
          /\ Registered(lastOp.agent)
          /\ active_processes[lastOp.agent] = Len(proc)
          /\ Lookup(active_processes, lastOp.agent) # 0
          /\ ENABLED Health

\* A second start has been answered with its id.
C24_Witness ==
    /\ lastOp.op = "start"
    /\ lastOp.status = 200
    /\ lastOp.agent = 2
    /\ LiveSessionCount = 2

\* C25: for a process that ignores the graceful signal the kill is sent
\* when the grace period has elapsed: not before, and with a wait between
\* terminate() and kill() that does not exceed the grace period.
C25_KillAtGrace ==
    stop.phase = "waiting" => stop.elapsed = GraceTicks

\* C26: no data event carries an empty line; a line that is empty once
\* stripped produces no event and does not end the stream: the generator
\* goes back to its read.
C26_NoEmptyLine ==
    [][\A h \in Handles :
          /\ \A i \in DOMAIN stream'[h].delivered :
                stream'[h].delivered[i].type = "data"
                    => stream'[h].delivered[i].line # <<>>
          /\ \A i \in DOMAIN ReadStream(pipe'[h].written).lines :
                ReadStream(pipe'[h].written).lines[i] # <<>>
          /\ (GenResume(h) /\ stream[h].result \in {<<NL>>, <<" ", NL>>})
                => /\ stream'[h].delivered = stream[h].delivered
                   /\ stream'[h].gen = "awaiting"
                   /\ stream'[h].worker = "queued"]_vars

\* A line was delivered after an empty and a blank line were suppressed.
C26_Witness ==
    \E h \in Handles :
        /\ pipe[h].written = << <<>>, <<" ">>, <<"a">> >>
        /\ stream[h].delivered = <<Data(<<"a">>)>>

\* The symbols of a string.
Symbols(str) == {str[i] : i \in DOMAIN str}

\* The part of the built command that follows the quoted prompt and the
\* fixed flags.
OptionTail == SubSeq(built.command, Len(Join(BaseParts(built.prompt))) + 1, Len(built.command))

\* The string holds the flag followed by a space and the value as one token.
HasFlagValue(str, flag, value) ==
    \E i \in DOMAIN str :
        /\ str[i] = flag
        /\ i + 1 + Len(value) <= Len(str)
        /\ str[i + 1] = SP
        /\ SubSeq(str, i + 2, i + 1 + Len(value)) = value
        /\ i + 1 + Len(value) < Len(str) => str[i + 2 + Len(value)] = SP

\* The elements of a list joined with commas.
RECURSIVE CommaJoined(_)
CommaJoined(list) ==
    IF list = << >> THEN << >>
    ELSE IF Len(list) = 1 THEN <<Head(list)>>
    ELSE <<Head(list), COMMA>> \o CommaJoined(Tail(list))

CapabilityFlag(key) == IF key = "allowed_tools" THEN "--allowed-tools" ELSE "--disallowed-tools"

\* C27: for every non-empty allowed or denied capability list of the
\* options the command holds the matching flag followed by the list joined
\* with commas, and for an empty or absent list the flag does not appear,
\* for a direct call of _build_command and for the command StartSession
\* spawns.
C27_CapabilityFlags ==
    built.done =>
        \A key \in {"allowed_tools", "disallowed_tools"} :
            IF key \in DOMAIN built.options /\ built.options[key] # << >>
            THEN HasFlagValue(OptionTail, CapabilityFlag(key), CommaJoined(built.options[key]))
            ELSE CapabilityFlag(key) \notin Symbols(OptionTail)

C29_McpFlags ==
    built.done =>
        /\ IF "mcp_config" \in DOMAIN built.options
           THEN HasFlagValue(OptionTail, "--mcp-config", built.options["mcp_config"])
           ELSE "--mcp-config" \notin Symbols(OptionTail)
        /\ "--strict-mcp-config" \in Symbols(OptionTail)
              <=> "mcp_strict" \in DOMAIN built.options
        /\ \A i, j \in DOMAIN OptionTail :
              (OptionTail[i] \in {"--allowed-tools", "--disallowed-tools"}
                 /\ OptionTail[j] \in {"--mcp-config", "--strict-mcp-config"}) => i < j

\* C30: the shell that runs the built command sees one command, in which
\* the prompt is exactly one argument, the one after -p.
C30_PromptIsOneArgument ==
    built.done =>
        LET sh == ShellWords(built.command) IN
        /\ ~sh.unterminated
        /\ Len(sh.cmds) = 1
        /\ Len(sh.cmds[1]) >= 4
        /\ sh.cmds[1][1] = CliPath
        /\ sh.cmds[1][2] = <<"-p">>
        /\ sh.cmds[1][3] = built.prompt
        /\ sh.cmds[1][4] = <<"--output-format">>

\* The mappings handed to the launches made so far.
LaunchEnvs == { environ.heap[environ.launched[i]] : i \in 1..Len(environ.launched) }

\* C31: the environment of every launch is without ANTHROPIC_API_KEY,
\* whatever os.environ holds, and has CLAUDE_USE_SUBSCRIPTION = "true"
\* whenever use_subscription is configured.
C31_ChildEnvironment ==
    \A env \in LaunchEnvs :
        /\ API_KEY \notin DOMAIN env
        /\ environ.use_subscription =>
              /\ USE_SUBSCRIPTION \in DOMAIN env
              /\ env[USE_SUBSCRIPTION] = "true"

\* A launch was made, with use_subscription, by a service whose own
\* environment holds the key and says "false" for the subscription.
C31_Witness ==
    /\ environ.launched # << >>
    /\ environ.use_subscription
    /\ API_KEY \in DOMAIN environ.heap[OsEnviron]
    /\ USE_SUBSCRIPTION \in DOMAIN environ.heap[OsEnviron]
    /\ environ.heap[OsEnviron][USE_SUBSCRIPTION] = "false"

\* C32: no step changes os.environ, and the mapping of each launch is
\* neither os.environ nor the mapping of another launch.
C32_AmbientUntouched ==
    [][/\ environ'.heap[OsEnviron] = environ.heap[OsEnviron]
       /\ \A i \in 1..Len(environ'.launched) :
             /\ environ'.launched[i] # OsEnviron
             /\ \A j \in 1..Len(environ'.launched) :
                   i # j => environ'.launched[i] # environ'.launched[j]]_vars

\* Two launches were made by a service whose own environment holds the key.
C32_Witness ==
    /\ Len(environ.launched) = 2
    /\ API_KEY \in DOMAIN environ.heap[OsEnviron]

\* The lines of a byte string: cut after each terminator, the rest after the
\* last terminator being a line when it is not empty.
RECURSIVE SplitLines(_)
SplitLines(bytes) ==
    IF bytes = <<>> THEN <<>>
    ELSE IF FirstNL(bytes) = 0 THEN <<bytes>>
    ELSE <<SubSeq(bytes, 1, FirstNL(bytes))>>
            \o SplitLines(SubSeq(bytes, FirstNL(bytes) + 1, Len(bytes)))

\* The texts of raw lines, each decoded and stripped, the empty ones left out.
RECURSIVE DecodedTexts(_)
DecodedTexts(raw) ==
    IF raw = <<>> THEN <<>>
    ELSE IF Strip(Decode(Head(raw))) # <<>>
         THEN <<Strip(Decode(Head(raw)))>> \o DecodedTexts(Tail(raw))
         ELSE DecodedTexts(Tail(raw))

WellFormed(bytes) == \A i \in 1..Len(SplitLines(bytes)) : Decodable(SplitLines(bytes)[i])

\* C33: whatever the cuts between the reads of the descriptor, also inside
\* a multi-byte character, a reader of well-formed output raises no decode
\* error and delivers each line once, as the text of the bytes written.
C33_SplitCharacterDecoded ==
    LET bytes == Concat(reads.chunks) IN
    (reads.stdout /\ WellFormed(bytes)) =>
        /\ reads.async.done =>
              ~reads.async.raised /\ reads.async.lines = DecodedTexts(SplitLines(bytes))
        /\ reads.sync.done =>
              ~reads.sync.raised /\ reads.sync.lines = DecodedTexts(SplitLines(bytes))

\* The asynchronous reader has delivered one line with the character whose
\* two bytes came in two reads.
C33_Witness ==
    /\ reads.async.done
    /\ \E i \in 1..(Len(reads.chunks) - 1) :
          /\ reads.chunks[i][Len(reads.chunks[i])] = Lead
          /\ reads.chunks[i + 1][1] = Cont
    /\ Len(reads.async.lines) = 1
    /\ \E j \in 1..Len(reads.async.lines[1]) : reads.async.lines[1][j] = EAcute

\* A line without its trailing terminators.
RECURSIVE Chomp(_)
Chomp(s) ==
    IF s # <<>> /\ s[Len(s)] \in {NL, "\r"} THEN Chomp(SubSeq(s, 1, Len(s) - 1)) ELSE s

\* C34: each line delivered is the decoded text of a line written with its
\* trailing terminators removed and nothing else changed.
C34_OnlyTerminatorsRemoved ==
    LET raw == SplitLines(Concat(reads.chunks)) IN
    (reads.async.done /\ ~reads.async.raised) =>
        \A i \in 1..Len(reads.async.lines) :
            \E j \in 1..Len(raw) : reads.async.lines[i] = Chomp(Decode(raw[j]))

\* C40: on every output the two readers deliver the same lines and end in
\* the same way, by end-of-file or by the same decode error; without a
\* stdout handle both deliver nothing.
C40_ReadersAgree ==
    (reads.sync.done /\ reads.async.done) =>
        /\ reads.sync.lines = reads.async.lines
        /\ reads.sync.raised = reads.async.raised
        /\ ~reads.stdout => reads.sync.lines = <<>> /\ ~reads.sync.raised

\* Both readers have run on an output that starts with an empty line and
\* have delivered a line.
C40_Witness ==
    /\ reads.sync.done
    /\ reads.async.done
    /\ reads.chunks # <<>>
    /\ reads.chunks[1][1] = NL
    /\ reads.async.lines # <<>>

\* The stream of the session has ended by its generator: by the completion
\* event, by the error event or by the close of a started generator.
StreamEnds(a) ==
    /\ stream[HandleOf(a)].gen \in {"awaiting", "yielded"}
    /\ stream'[HandleOf(a)].gen = "closed"

\* C35: the entry of a session leaves the registry once, by the stop_agent
\* call that answers for it or by the end of its stream, and takes no other
\* entry with it; a stop_agent call in progress still finds the entry it is
\* about to delete, and the end of a stream whose entry is gone leaves the
\* registry as it is.
C35_DestroyedOnce ==
    [][/\ \A a \in AgentIds :
            /\ (Registered(a) /\ ~Registered(a)') =>
                  /\ \A b \in AgentIds \ {a} : Registered(b)' <=> Registered(b)
                  /\ \/ lastOp' = Response("stop", a, 200, lastOp'.detail, 0)
                     \/ StreamEnds(a)
            /\ (a <= issued /\ ~Registered(a)) =>
                  /\ ~Registered(a)'
                  /\ (\E h \in Handles : stream[h].agent = a) /\ StreamEnds(a)
                        => active_processes' = active_processes
       /\ stop'.phase # "idle" => stop'.agent \in DOMAIN active_processes'
       /\ (lastOp'.op = "stop" /\ lastOp'.status = 200) => Registered(lastOp'.agent)]_vars

\* A session was stopped and its stream has then ended by the completion
\* event.
C35_Witness ==
    \E h \in Handles :
        /\ stream[h].agent \in stopped
        /\ Completed(h)

\* C36: a StopSession answered with success was asked for the id it names;
\* the process of the id has exited with its status collected, and the id
\* is out of the registry.
C36_StoppedMeansGone ==
    [][\A a \in AgentIds :
          ( /\ StopBegin(a) \/ (stop.agent = a /\ (StopPoll \/ StopWait))
            /\ lastOp'.op = "stop"
            /\ lastOp'.status = 200 )
          => /\ lastOp'.agent = a
             /\ ~Registered(a)'
             /\ proc'[HandleOf(a)].state = "exited"
             /\ proc'[HandleOf(a)].returncode]_vars

\* A StopSession has succeeded on a process that an earlier, failed
\* StopSession had left running.
C36_Witness ==
    /\ lastOp.op = "stop"
    /\ lastOp.status = 200
    /\ proc[HandleOf(lastOp.agent)].oserr > 0

\* C37: a stop_agent call in which terminate(), kill() or wait() raises is
\* answered with a status that is neither success nor NotFound and names
\* the session, and leaves the registry as it was, the session in it.
C37_OsErrorKeepsEntry ==
    [][\A h \in Handles :
          proc'[h].oserr > proc[h].oserr =>
              /\ lastOp'.op = "stop"
              /\ lastOp'.agent = stream[h].agent
              /\ lastOp'.status \notin {200, 404}
              /\ active_processes' = active_processes
              /\ Lookup(active_processes', stream[h].agent) = h]_vars

\* A StopSession has failed on kill() or wait(), after terminate().
C37_Witness ==
    /\ lastOp.op = "stop"
    /\ lastOp.status = 500
    /\ proc[HandleOf(lastOp.agent)].term > 0
    /\ Registered(lastOp.agent)

\* C38: a StopSession on an id that is not in the registry is answered
\* NotFound, and a StopSession answered NotFound leaves the registry, its
\* count and every process as they were.
C38_NotFoundChangesNothing ==
    [][/\ \A a \in AgentIds :
            (StopBegin(a) /\ ~Registered(a)) => lastOp' = Response("stop", a, 404, "not found", 0)
       /\ (lastOp'.op = "stop" /\ lastOp'.status = 404) =>
            /\ active_processes' = active_processes
            /\ LiveSessionCount' = LiveSessionCount
            /\ proc' = proc
            /\ stopped' = stopped]_vars

\* NotFound was the answer for the id of a session whose stream has ended
\* while its child runs on.
C38_Witness ==
    /\ lastOp.op = "stop"
    /\ lastOp.status = 404
    /\ \E h \in Handles : stream[h].agent = lastOp.agent /\ proc[h].state = "running"

\* The positions of the completion and error events of a delivery.
Markers(events) == {i \in DOMAIN events : events[i] \in {Complete, Error}}

\* C39: a delivery holds at most one terminal event, the completion or the
\* error, and it is the last event; no step adds to the delivery of a closed
\* stream, and a cancellation adds nothing, so that a cancelled stream has
\* neither.
C39_OneTerminalMarker ==
    [][\A h \in Handles :
          /\ Cardinality(Markers(stream'[h].delivered)) <= 1
          /\ Markers(stream'[h].delivered) \subseteq {Len(stream'[h].delivered)}
          /\ stream[h].gen = "closed" => stream'[h].delivered = stream[h].delivered
          /\ GenCancel(h) => Markers(stream'[h].delivered) = {}]_vars

\* A stream was cancelled after a line was delivered.
C39_Witness ==
    \E h \in Handles :
        /\ stream[h].gen = "closed"
        /\ stream[h].delivered # <<>>
        /\ Markers(stream[h].delivered) = {}

====
